---- MODULE Spec2Model ----
(***************************************************************************)
(* Anchor generation, anchor / ground-truth matching and target encoding   *)
(* of the region proposal network in src/rpn.py.                           *)
(*                                                                         *)
(* Conventions of the model                                                *)
(*  - A box is a tuple <<y1, x1, y2, x2>>.  In the matcher the coordinates *)
(*    are integers: the numerators of the normalised coordinates over one  *)
(*    common denominator (IoU does not depend on that denominator).        *)
(*  - A quotient computed by the code is kept exact as [num, den]; a       *)
(*    quotient 0/0 (den = 0) is the NaN numpy produces for float32 0/0.    *)
(*    The rounding of float32 arithmetic is not modelled.                  *)
(*  - numpy indices start at 0, sequences here start at 1: anchor index a  *)
(*    of the code is a+1 here, ground-truth index j is j+1.                *)
(***************************************************************************)
EXTENDS Integers, Sequences, FiniteSets

VARIABLES
    pc,                       \* position in the computation
    error,                    \* exception raised, "none" when none
    \* ---- matcher / sampler / target encoder
    anchors,                  \* anchor set
    gt_boxes,                 \* ground-truth boxes
    total_pos_anchor_number,  \* budget P
    iou_map,                  \* N x M matrix of IoU quotients
    max_indices_each_gt_box,  \* per anchor: argmax of its row
    mask,                     \* masked entries of masked_merged_iou_map
    pos_anchors,              \* sequence of <<anchor index, gt index>>
    neg_anchors,              \* set of anchor indices
    bbox_deltas,              \* per anchor regression target
    labels,                   \* per anchor label
    \* ---- calculate_iou on its own
    anc, gt, iou,
    \* ---- anchor generator
    img, stride, anchor_ratios, anchor_scales,
    base_anchors, output_shape, cells

vars == <<pc, error, anchors, gt_boxes, total_pos_anchor_number, iou_map,
          max_indices_each_gt_box, mask, pos_anchors, neg_anchors,
          bbox_deltas, labels, anc, gt, iou, img, stride, anchor_ratios,
          anchor_scales, base_anchors, output_shape, cells>>

samplerVars == <<anchors, gt_boxes, total_pos_anchor_number, iou_map,
                 max_indices_each_gt_box, mask, pos_anchors,
                 neg_anchors, bbox_deltas, labels>>
iouVars == <<anc, gt, iou>>
generatorVars == <<img, stride, anchor_ratios, anchor_scales, base_anchors,
                   output_shape, cells>>

(***************************************************************************)
(* Bounds                                                                  *)
(***************************************************************************)
\* anchors handed to the matcher
MaxN == 3
\* ground-truth boxes of an image
MaxM == 2
\* budgets 1..MaxP are tried, besides DefaultBudget
MaxP == 2
\* coordinates of the boxes calculate_iou is tried on
MaxCoord == 2
\* image height and width, in pixels
MaxDim == 3
\* anchor scales 1..MaxScale
MaxScale == 2
\* length of the ratio list and of the scale list
MaxList == 2

\* total_pos_anchor_number=64, the default and what the encoder passes
DefaultBudget == 64

(***************************************************************************)
(* Helpers                                                                 *)
(***************************************************************************)
Max2(a, b) == IF a >= b THEN a ELSE b
Min2(a, b) == IF a <= b THEN a ELSE b

\* a quotient num / den as the code computes it
Frac(n, d) == [num |-> n, den |-> d]

\* sequences over S of length at most n
SeqUpTo(S, n) == UNION {[1..k -> S] : k \in 0..n}

\* a < b for two IoU quotients with positive denominators
IouLess(a, b) == a.num * b.den < b.num * a.den

\* a < 0.3 for an IoU quotient with positive denominator
BelowNegThreshold(a) == 10 * a.num < 3 * a.den

(***************************************************************************)
(* calculate_iou, generate_iou_map                                         *)
(***************************************************************************)
calculate_iou(anc_box, gt_box) ==
    LET gt_y1 == gt_box[1]
        gt_x1 == gt_box[2]
        gt_y2 == gt_box[3]
        gt_x2 == gt_box[4]
        gt_width == gt_x2 - gt_x1
        gt_height == gt_y2 - gt_y1
        gt_area == gt_width * gt_height
        anc_y1 == anc_box[1]
        anc_x1 == anc_box[2]
        anc_y2 == anc_box[3]
        anc_x2 == anc_box[4]
        anc_width == anc_x2 - anc_x1
        anc_height == anc_y2 - anc_y1
        anc_area == anc_width * anc_height
        x_top == Max2(gt_x1, anc_x1)
        y_top == Max2(gt_y1, anc_y1)
        x_bottom == Min2(gt_x2, anc_x2)
        y_bottom == Min2(gt_y2, anc_y2)
        intersection_area == (x_bottom - x_top) * (y_bottom - y_top)
        union_area == gt_area + anc_area - intersection_area
    IN  IF x_bottom < x_top \/ y_bottom < y_top
        THEN Frac(0, 1)
        ELSE Frac(intersection_area, union_area)

generate_iou_map(ancs, gts) ==
    [a \in 1..Len(ancs) |-> [g \in 1..Len(gts) |-> calculate_iou(ancs[a], gts[g])]]

(***************************************************************************)
(* get_positive_and_negative_anchors                                       *)
(***************************************************************************)
\* numpy argmax: the first index holding the largest value
argmax(v) ==
    CHOOSE j \in DOMAIN v :
        /\ \A k \in DOMAIN v : ~IouLess(v[j], v[k])
        /\ \A k \in DOMAIN v : k < j => IouLess(v[k], v[j])

\* iou_map.argmax(axis=1)
RowArgmax(m) == [a \in DOMAIN m |-> argmax(m[a])]

\* iou_map[:, n]
Column(m, n) == [a \in DOMAIN m |-> m[a][n]]

\* iou_map[np.arange(N), max_indices_each_gt_box]
merged_iou_map(m, maxidx) == [a \in DOMAIN m |-> m[a][maxidx[a]]]

\* the anchors whose best ground-truth box is column n
anchor_indices_for_gt_box(maxidx, n) == {a \in DOMAIN maxidx : maxidx[a] = n}

\* The forced-positive loop over the columns 1..n: a column that is the
\* best one of no anchor is skipped, otherwise the first anchor holding the
\* column's largest IoU is masked.
RECURSIVE ForcedMask(_, _, _)
ForcedMask(m, maxidx, n) ==
    IF n = 0 THEN {}
    ELSE LET before == ForcedMask(m, maxidx, n - 1)
         IN  IF anchor_indices_for_gt_box(maxidx, n) = {}
             THEN before
             ELSE before \cup {argmax(Column(m, n))}

Orderings(n) ==
    {p \in [1..n -> 1..n] : \A i, j \in 1..n : i # j => p[i] # p[j]}

\* order of the keys of a masked argsort: a masked entry is filled with
\* the largest value of the type, so it sorts after every unmasked entry
KeyLess(merged, msk, a, b) ==
    a \notin msk /\ (b \in msk \/ IouLess(merged[a], merged[b]))

\* masked_merged_iou_map.argsort(): every ascending order of the keys; the
\* default sort kind is not stable, so equal keys come in any order
argsort(merged, msk) ==
    {p \in Orderings(Len(merged)) :
        \A i, j \in 1..Len(merged) :
            i < j => ~KeyLess(merged, msk, p[j], p[i])}

Reverse(p) == [i \in 1..Len(p) |-> p[Len(p) + 1 - i]]

\* mutant: the forced positives are not masked before the sort
sorted_iou_map_Unmasked(merged, msk) ==
    {Reverse(p) : p \in argsort(merged, {})}

\* masked_merged_iou_map.argsort()[::-1]
sorted_iou_map(merged, msk) == {Reverse(p) : p \in argsort(merged, msk)}

\* pos_anchors built from sorted_iou_map[:total_pos_anchor_number]
PosAnchors(sorted, maxidx, budget) ==
    [i \in 1..Min2(budget, Len(sorted)) |-> <<sorted[i], maxidx[sorted[i]]>>]

\* pos_anchors[:, 0]
PosIndices(pos) == {pos[i][1] : i \in DOMAIN pos}

\* mutant: the positive anchors are not removed from the negatives
NegCandidates_KeepPositives(merged, posidx) ==
    {a \in DOMAIN merged : BelowNegThreshold(merged[a])}

\* np.where(masked_merged_iou_map < 0.3)[0] without the positive anchors;
\* np.where reads the data of the comparison, masked entries included
NegCandidates(merged, posidx) ==
    {a \in DOMAIN merged : BelowNegThreshold(merged[a])} \ posidx

\* mutant: the negatives are never subsampled
Subsample_Never(neg, pos_anchors_count) == {neg}

\* np.random.choice(neg_anchors, size=pos_anchors_count, replace=False)
\* when there are more negatives than positives: the possible outcomes
Subsample(neg, pos_anchors_count) ==
    IF Cardinality(neg) > pos_anchors_count
    THEN {s \in SUBSET neg : Cardinality(s) = pos_anchors_count}
    ELSE {neg}

(***************************************************************************)
(* get_deltas_from_bboxes and the labels of get_bbox_deltas_and_labels     *)
(***************************************************************************)
\* One row of bbox_deltas: <<delta_y, delta_x, delta_h, delta_w>>.  Centres
\* are kept doubled (2*ctr = 2*min + extent); delta_h and delta_w are kept
\* as the argument of np.log.
DeltaRow(anc_box, gt_box) ==
    LET anc_width == anc_box[4] - anc_box[2]
        anc_height == anc_box[3] - anc_box[1]
        anc_ctr_x2 == 2 * anc_box[2] + anc_width
        anc_ctr_y2 == 2 * anc_box[1] + anc_height
        gt_width == gt_box[4] - gt_box[2]
        gt_height == gt_box[3] - gt_box[1]
        gt_ctr_x2 == 2 * gt_box[2] + gt_width
        gt_ctr_y2 == 2 * gt_box[1] + gt_height
    IN  << Frac(gt_ctr_y2 - anc_ctr_y2, 2 * anc_height),
           Frac(gt_ctr_x2 - anc_ctr_x2, 2 * anc_width),
           [log |-> Frac(gt_height, anc_height)],
           [log |-> Frac(gt_width, anc_width)] >>

ZeroRow == <<0, 0, 0, 0>>

get_deltas_from_bboxes(ancs, gts, pos) ==
    [a \in 1..Len(ancs) |->
        IF a \in PosIndices(pos)
        THEN LET i == CHOOSE k \in DOMAIN pos : pos[k][1] = a
             IN  DeltaRow(ancs[a], gts[pos[i][2]])
        ELSE ZeroRow]

\* mutant: the labels start at 0 (background) instead of -1 (neutral)
Labels_ZeroInit(n, neg, posidx) ==
    [a \in 1..n |-> IF a \in posidx THEN 1 ELSE 0]

\* labels = -1; labels[neg_anchors] = 0; labels[pos_anchors[:,0]] = 1
Labels(n, neg, posidx) ==
    LET l0 == [a \in 1..n |-> -1]
        l1 == [a \in 1..n |-> IF a \in neg THEN 0 ELSE l0[a]]
    IN  [a \in 1..n |-> IF a \in posidx THEN 1 ELSE l1[a]]

(***************************************************************************)
(* Inputs of the matcher                                                   *)
(***************************************************************************)
\* Boxes of positive area the anchors and the ground-truth boxes are drawn
\* from; the IoU of an anchor and a ground-truth box takes the values
\* 0, 1/4, 1/3, 2/3 and 1.
GtBoxes == { <<0, 0, 1, 2>>, <<0, 1, 1, 4>>, <<0, 3, 2, 4>> }
AnchorBoxes == GtBoxes \cup { <<0, 1, 1, 3>> }

Budgets == (1..MaxP) \cup {DefaultBudget}

IdleIou == /\ anc = <<>> /\ gt = <<>> /\ iou = Frac(0, 1)
IdleGenerator ==
    /\ img = [height |-> 0, width |-> 0]
    /\ stride = 0
    /\ anchor_ratios = <<>>
    /\ anchor_scales = <<>>
    /\ base_anchors = <<>>
    /\ output_shape = <<0, 0, 0>>
    /\ cells = <<>>
IdleSampler ==
    /\ anchors = <<>>
    /\ gt_boxes = <<>>
    /\ total_pos_anchor_number = DefaultBudget
    /\ iou_map = <<>>
    /\ max_indices_each_gt_box = <<>>
    /\ mask = {}
    /\ pos_anchors = <<>>
    /\ neg_anchors = {}
    /\ bbox_deltas = <<>>
    /\ labels = <<>>

Init ==
    /\ pc = "start"
    /\ error = "none"
    /\ anchors \in SeqUpTo(AnchorBoxes, MaxN)
    /\ gt_boxes \in SeqUpTo(GtBoxes, MaxM)
    /\ total_pos_anchor_number \in Budgets
    /\ iou_map = <<>>
    /\ max_indices_each_gt_box = <<>>
    /\ mask = {}
    /\ pos_anchors = <<>>
    /\ neg_anchors = {}
    /\ bbox_deltas = <<>>
    /\ labels = <<>>
    /\ IdleIou
    /\ IdleGenerator

(***************************************************************************)
(* Steps of get_positive_and_negative_anchors / get_bbox_deltas_and_labels *)
(***************************************************************************)
\* IoU map, row argmax, merged map and the forced-positive loop
MatchRows ==
    /\ pc = "start"
    /\ Len(gt_boxes) > 0
    /\ LET m == generate_iou_map(anchors, gt_boxes)
           maxidx == RowArgmax(m)
       IN  /\ iou_map' = m
           /\ max_indices_each_gt_box' = maxidx
           /\ mask' = ForcedMask(m, maxidx, Len(gt_boxes))
    /\ pc' = "masked"
    /\ UNCHANGED <<error, anchors, gt_boxes, total_pos_anchor_number,
                   pos_anchors, neg_anchors, bbox_deltas, labels, iouVars,
                   generatorVars>>

\* iou_map.argmax(axis=1) along an axis of length 0 raises ValueError
MatchRowsRaise ==
    /\ pc = "start"
    /\ Len(gt_boxes) = 0
    /\ iou_map' = generate_iou_map(anchors, gt_boxes)
    /\ error' = "ValueError"
    /\ pc' = "raised"
    /\ UNCHANGED <<anchors, gt_boxes, total_pos_anchor_number,
                   max_indices_each_gt_box, mask, pos_anchors, neg_anchors,
                   bbox_deltas, labels, iouVars, generatorVars>>

\* sort, cut at the budget, pair each anchor with its row argmax
SelectPositive ==
    /\ pc = "masked"
    /\ \E sorted \in sorted_iou_map(
              merged_iou_map(iou_map, max_indices_each_gt_box), mask) :
          pos_anchors' = PosAnchors(sorted, max_indices_each_gt_box,
                                    total_pos_anchor_number)
    /\ pc' = "negative"
    /\ UNCHANGED <<error, anchors, gt_boxes, total_pos_anchor_number, iou_map,
                   max_indices_each_gt_box, mask, neg_anchors, bbox_deltas,
                   labels, iouVars, generatorVars>>

\* negatives below the threshold, positives removed, subsampled; return
GetNegative ==
    /\ pc = "negative"
    /\ \E chosen \in Subsample(
              NegCandidates(merged_iou_map(iou_map, max_indices_each_gt_box),
                            PosIndices(pos_anchors)),
              Len(pos_anchors)) :
          neg_anchors' = chosen
    /\ pc' = "returned"
    /\ UNCHANGED <<error, anchors, gt_boxes, total_pos_anchor_number, iou_map,
                   max_indices_each_gt_box, mask, pos_anchors,
                   bbox_deltas, labels, iouVars, generatorVars>>

\* get_bbox_deltas_and_labels after the matcher returned: deltas and labels
Encode ==
    /\ pc = "returned"
    /\ bbox_deltas' = get_deltas_from_bboxes(anchors, gt_boxes, pos_anchors)
    /\ labels' = Labels(Len(anchors), neg_anchors, PosIndices(pos_anchors))
    /\ pc' = "done"
    /\ UNCHANGED <<error, anchors, gt_boxes, total_pos_anchor_number, iou_map,
                   max_indices_each_gt_box, mask, pos_anchors,
                   neg_anchors, iouVars, generatorVars>>

Next ==
    \/ MatchRows
    \/ MatchRowsRaise
    \/ SelectPositive
    \/ GetNegative
    \/ Encode

Spec == Init /\ [][Next]_vars

(***************************************************************************)
(* Properties of the matcher / sampler / target encoder (under Spec)       *)
(***************************************************************************)
\* get_positive_and_negative_anchors has returned pos_anchors, neg_anchors
Returned == pc = "returned"

\* the largest IoU of anchor a over all ground-truth boxes is below 0.3
BestIouBelowThreshold(a) ==
    \A g \in 1..Len(gt_boxes) : BelowNegThreshold(iou_map[a][g])

\* anchor a has IoU 0 with every ground-truth box
ZeroIouRow(a) == \A g \in 1..Len(gt_boxes) : iou_map[a][g].num = 0

\* anchor a has the largest IoU of its column g
ColumnBest(a, g) ==
    \A b \in 1..Len(anchors) : ~IouLess(iou_map[a][g], iou_map[b][g])

\* anchor a is ranked strictly above anchor b by the best-IoU score
ScoreAbove(a, b) ==
    \E g \in 1..Len(gt_boxes) :
        \A h \in 1..Len(gt_boxes) : IouLess(iou_map[b][h], iou_map[a][g])

\* C1: once the matcher has returned, every ground-truth box j that some
\* anchor overlaps (IoU > 0) has at least one positive pair (anchor, j).
C1_EveryOverlappedGtHasPositive ==
    Returned =>
        \A j \in 1..Len(gt_boxes) :
            (\E a \in 1..Len(anchors) : iou_map[a][j].num > 0)
                => \E i \in DOMAIN pos_anchors : pos_anchors[i][2] = j

\* C2: with zero ground-truth boxes the target pipeline raises nothing, and
\* when it is done there is no positive anchor, every regression row is
\* zero and no label equals 1.
C2_NoGroundTruthYieldsBackground ==
    Len(gt_boxes) = 0 =>
        /\ error = "none"
        /\ pc = "done" =>
              /\ pos_anchors = <<>>
              /\ \A a \in DOMAIN bbox_deltas : bbox_deltas[a] = ZeroRow
              /\ \A a \in DOMAIN labels : labels[a] # 1

\* C4: with at least one ground-truth box, the returned positive assignment
\* has at most P entries, names no anchor twice, and shares no anchor with
\* the returned negative set.
C4_PositiveWithinBudgetDistinctDisjoint ==
    (Returned /\ Len(gt_boxes) >= 1) =>
        /\ Len(pos_anchors) <= total_pos_anchor_number
        /\ \A i, k \in DOMAIN pos_anchors :
              i # k => pos_anchors[i][1] # pos_anchors[k][1]
        /\ \A i \in DOMAIN pos_anchors : pos_anchors[i][1] \notin neg_anchors

\* C4 witness: the budget cuts the ranking, a forced positive exists, two
\* anchors tie on their score and a negative is returned.
C4_Witness ==
    /\ pc = "returned"
    /\ Len(anchors) > total_pos_anchor_number
    /\ mask # {}
    /\ neg_anchors # {}
    /\ \E a, b \in 1..Len(anchors) :
          a # b /\ ~ScoreAbove(a, b) /\ ~ScoreAbove(b, a)

\* the anchors below the threshold that are not positive, from the IoU map
C5_Candidates ==
    {a \in 1..Len(anchors) : BestIouBelowThreshold(a)}
        \ {pos_anchors[i][1] : i \in DOMAIN pos_anchors}

\* C5: every returned negative has a best IoU strictly below 0.3; there are
\* never more negatives than positives: with more candidates than positives
\* exactly as many as positives are drawn from them, otherwise all
\* candidates are returned.
C5_NegativesBelowThresholdAndBalanced ==
    Returned =>
        \A candidates \in {C5_Candidates} :
            /\ \A a \in neg_anchors : BestIouBelowThreshold(a)
            /\ Cardinality(neg_anchors) <= Len(pos_anchors)
            /\ neg_anchors \subseteq candidates
            /\ Cardinality(candidates) > Len(pos_anchors)
                  => Cardinality(neg_anchors) = Len(pos_anchors)
            /\ Cardinality(candidates) <= Len(pos_anchors)
                  => neg_anchors = candidates

\* C5 witness: more candidates than positives, so the negatives were drawn.
C5_Witness ==
    /\ pc = "returned"
    /\ Cardinality(C5_Candidates) > Len(pos_anchors)
    /\ neg_anchors # {}

\* C6: in the labels, 1 marks exactly the positive anchors, 0 exactly the
\* negative anchors, -1 every other anchor, and the number of labels equal
\* to 1 is the number of positive anchors.
C6_LabelsMatchSets ==
    pc = "done" =>
        /\ DOMAIN labels = 1..Len(anchors)
        /\ \A a \in 1..Len(anchors) :
              /\ labels[a] = 1 <=> (\E i \in DOMAIN pos_anchors : pos_anchors[i][1] = a)
              /\ labels[a] = 0 <=> a \in neg_anchors
              /\ labels[a] \in {-1, 0, 1}
        /\ Cardinality({a \in 1..Len(anchors) : labels[a] = 1}) = Len(pos_anchors)

\* C6 witness: labels with a positive, a negative and an ignored anchor.
C6_Witness ==
    /\ pc = "done"
    /\ \E a, b, c \in 1..Len(anchors) :
          labels[a] = 1 /\ labels[b] = 0 /\ labels[c] = -1

\* anchor a is the forced positive of some column: some anchor has that
\* column as its best one and a is the first anchor with the column's
\* largest IoU
C10_Forced(a) ==
    \E g \in 1..Len(gt_boxes) :
        /\ \E b \in 1..Len(anchors) :
              /\ \A h \in 1..Len(gt_boxes) : ~IouLess(iou_map[b][g], iou_map[b][h])
              /\ \A h \in 1..Len(gt_boxes) : h < g => IouLess(iou_map[b][h], iou_map[b][g])
        /\ ColumnBest(a, g)
        /\ \A b \in 1..Len(anchors) : b < a => ~ColumnBest(b, g)

\* the forced positives, from the IoU map
C10_ForcedSet == {a \in 1..Len(anchors) : C10_Forced(a)}

\* anchor a comes strictly before anchor b in the ranking
C10_RankedAbove(forced, a, b) ==
    \/ a \in forced /\ b \notin forced
    \/ a \notin forced /\ b \notin forced /\ ScoreAbove(a, b)

\* C10: with at least one ground-truth box exactly min(P, N) positives are
\* returned, forced positives first and the others by descending best IoU
\* with no minimum IoU: no anchor left out is ranked above a returned one,
\* an anchor (of IoU 0 or not) with fewer than P anchors ranked at or above
\* it is returned, and each positive carries the first argmax of its own
\* IoU row.
C10_TopRankedPositives ==
    (Returned /\ Len(gt_boxes) >= 1) =>
        /\ Len(pos_anchors) = Min2(total_pos_anchor_number, Len(anchors))
        /\ \A forced \in {C10_ForcedSet} :
              /\ \A i, k \in DOMAIN pos_anchors :
                    i < k => ~C10_RankedAbove(forced, pos_anchors[k][1],
                                              pos_anchors[i][1])
              /\ \A i \in DOMAIN pos_anchors : \A b \in 1..Len(anchors) :
                    (\A k \in DOMAIN pos_anchors : pos_anchors[k][1] # b)
                        => ~C10_RankedAbove(forced, b, pos_anchors[i][1])
              /\ \A z \in 1..Len(anchors) :
                    Cardinality({b \in 1..Len(anchors) \ {z} :
                                    ~C10_RankedAbove(forced, z, b)})
                            < total_pos_anchor_number
                        => \E i \in DOMAIN pos_anchors : pos_anchors[i][1] = z
        /\ \A i \in DOMAIN pos_anchors :
              LET a == pos_anchors[i][1]
                  g == pos_anchors[i][2]
              IN  /\ \A h \in 1..Len(gt_boxes) : ~IouLess(iou_map[a][g], iou_map[a][h])
                  /\ \A h \in 1..Len(gt_boxes) : h < g => IouLess(iou_map[a][h], iou_map[a][g])

\* C10 witness: an anchor that overlaps no ground-truth box is returned as
\* positive although another anchor is left out.
C10_Witness ==
    /\ pc = "returned"
    /\ Len(gt_boxes) >= 1
    /\ Len(pos_anchors) < Len(anchors)
    /\ \E i \in DOMAIN pos_anchors : ZeroIouRow(pos_anchors[i][1])

(***************************************************************************)
(* calculate_iou on arbitrary boxes (SpecIou)                              *)
(***************************************************************************)
\* every box with top <= bottom and left <= right, zero-area boxes included
AnyBoxes ==
    {b \in (0..MaxCoord) \X (0..MaxCoord) \X (0..MaxCoord) \X (0..MaxCoord) :
        b[1] <= b[3] /\ b[2] <= b[4]}

InitIou ==
    /\ pc = "call"
    /\ error = "none"
    /\ anc \in AnyBoxes
    /\ gt \in AnyBoxes
    /\ iou = Frac(0, 1)
    /\ IdleSampler
    /\ IdleGenerator

\* iou = calculate_iou(anchor, gt_box_data)
CalculateIou ==
    /\ pc = "call"
    /\ iou' = calculate_iou(anc, gt)
    /\ pc' = "ret"
    /\ UNCHANGED <<error, anc, gt, samplerVars, generatorVars>>

NextIou == CalculateIou

SpecIou == InitIou /\ [][NextIou]_vars

BoxArea(b) == (b[3] - b[1]) * (b[4] - b[2])

\* C8: calculate_iou never divides by zero: for boxes with top <= bottom
\* and left <= right it returns a value in [0, 1], and 0 when the union
\* area is 0 (both boxes of zero area).
C8_IouNeverDividesByZero ==
    pc = "ret" =>
        /\ iou.den # 0
        /\ 0 <= iou.num /\ iou.num <= iou.den
        /\ (BoxArea(anc) = 0 /\ BoxArea(gt) = 0) => iou.num = 0

(***************************************************************************)
(* Anchor generator (SpecAnchors)                                          *)
(***************************************************************************)
\* Python a // b
FloorDiv(a, b) == IF b > 0 THEN a \div b ELSE (-a) \div (-b)

\* Python round(a / b) for a >= 0, b > 0: halves go to the even neighbour
RoundHalfEven(a, b) ==
    LET fl == a \div b
        rem2 == 2 * (a % b)
    IN  IF rem2 < b THEN fl
        ELSE IF rem2 > b THEN fl + 1
        ELSE IF fl % 2 = 0 THEN fl ELSE fl + 1

\* Python round((a / b) ** 0.5) for a >= 0, b > 0
RoundSqrt(a, b) ==
    CHOOSE n \in 0..(a + 1) :
        /\ \/ 4 * a < (2 * n + 1) * (2 * n + 1) * b
           \/ 4 * a = (2 * n + 1) * (2 * n + 1) * b /\ n % 2 = 0
        /\ \/ n = 0
           \/ 4 * a > (2 * n - 1) * (2 * n - 1) * b
           \/ 4 * a = (2 * n - 1) * (2 * n - 1) * b /\ n % 2 = 0

\* w = round((scale ** 2 / ratio) ** 0.5), ratio = num / den
BaseWidth(scale, ratio) == RoundSqrt(scale * scale * ratio.den, ratio.num)

\* h = round(w * ratio)
BaseHeight(scale, ratio) ==
    RoundHalfEven(BaseWidth(scale, ratio) * ratio.num, ratio.den)

\* The base anchors, scales outer and ratios inner, as boxes in doubled
\* pixel units: 2 * (center -+ extent / 2) = 2 * center -+ extent.
generate_base_anchors(strd, ratios, scales) ==
    LET center == strd \div 2
        R == Len(ratios)
    IN  [k \in 1..(Len(scales) * R) |->
            LET scale == scales[((k - 1) \div R) + 1]
                ratio == ratios[((k - 1) % R) + 1]
                w == BaseWidth(scale, ratio)
                h == BaseHeight(scale, ratio)
            IN  <<2 * center - h, 2 * center - w,
                  2 * center + h, 2 * center + w>>]

\* height // stride, width // stride
get_image_params(image, strd) ==
    [output_height |-> FloorDiv(image.height, strd),
     output_width |-> FloorDiv(image.width, strd)]

\* base anchor translated by a grid point (doubled pixel units)
Translate(b, gy, gx) == <<b[1] + gy, b[2] + gx, b[3] + gy, b[4] + gx>>

\* normalize_bboxes on a box in doubled pixel units
normalize_bboxes(b, height, width) ==
    <<Frac(b[1], 2 * height), Frac(b[2], 2 * width),
      Frac(b[3], 2 * height), Frac(b[4], 2 * width)>>

\* Row g (from 0) of grid_map: np.meshgrid(grid_y, grid_x) gives arrays of
\* shape (len(grid_x), len(grid_y)); ravel runs over grid_y fastest.
GridPoint(g, image, strd) ==
    LET p == get_image_params(image, strd)
        len_y == Max2(p.output_height, 0)
        width_padding2 == image.width - p.output_width * strd
        height_padding2 == image.height - p.output_height * strd
        ix == g \div len_y
        iy == g % len_y
    IN  <<height_padding2 + 2 * iy * strd, width_padding2 + 2 * ix * strd>>

get_anchors(image, ratios, scales, strd) ==
    LET anchor_count == Len(ratios) * Len(scales)
        p == get_image_params(image, strd)
        output_area == Max2(p.output_height, 0) * Max2(p.output_width, 0)
        base == generate_base_anchors(strd, ratios, scales)
    IN  [f \in 1..(output_area * anchor_count) |->
            LET g == (f - 1) \div anchor_count
                k == ((f - 1) % anchor_count) + 1
                pt == GridPoint(g, image, strd)
            IN  normalize_bboxes(Translate(base[k], pt[1], pt[2]),
                                 image.height, image.width)]

\* labels.reshape(output_height, output_width, anchor_count): the cell
\* <<row, col, k>> (from 0) that flat index f (from 1) lands in
ReshapeCell(f, shape) ==
    <<(f - 1) \div (shape[2] * shape[3]),
      ((f - 1) \div shape[3]) % shape[2],
      (f - 1) % shape[3]>>

Ratios == {Frac(1, 2), Frac(1, 1), Frac(2, 1)}
Strides == {-1, 0, 1, 2}

InitAnchors ==
    /\ pc = "start"
    /\ error = "none"
    /\ img \in [height : 1..MaxDim, width : 1..MaxDim]
    /\ stride \in Strides
    /\ anchor_ratios \in SeqUpTo(Ratios, MaxList)
    /\ anchor_scales \in SeqUpTo(1..MaxScale, MaxList)
    /\ base_anchors = <<>>
    /\ output_shape = <<0, 0, 0>>
    /\ cells = <<>>
    /\ IdleIou
    /\ anchors = <<>>
    /\ gt_boxes = <<>>
    /\ total_pos_anchor_number = DefaultBudget
    /\ iou_map = <<>>
    /\ max_indices_each_gt_box = <<>>
    /\ mask = {}
    /\ pos_anchors = <<>>
    /\ neg_anchors = {}
    /\ bbox_deltas = <<>>
    /\ labels = <<>>

\* anchors = get_anchors(img, anchor_ratios, anchor_scales, stride)
GetAnchors ==
    /\ pc = "start"
    /\ stride # 0
    /\ base_anchors' = generate_base_anchors(stride, anchor_ratios, anchor_scales)
    /\ anchors' = get_anchors(img, anchor_ratios, anchor_scales, stride)
    /\ output_shape' = <<get_image_params(img, stride).output_height,
                         get_image_params(img, stride).output_width,
                         Len(anchor_ratios) * Len(anchor_scales)>>
    /\ pc' = "anchors"
    /\ UNCHANGED <<error, img, stride, anchor_ratios, anchor_scales, cells,
                   gt_boxes, total_pos_anchor_number, iou_map,
                   max_indices_each_gt_box, mask, pos_anchors,
                   neg_anchors, bbox_deltas, labels, iouVars>>

\* height // 0 in get_image_params
GetAnchorsRaise ==
    /\ pc = "start"
    /\ stride = 0
    /\ error' = "ZeroDivisionError"
    /\ pc' = "raised"
    /\ UNCHANGED <<samplerVars, iouVars, generatorVars>>

\* the reshape of the per-anchor targets to (output_height, output_width,
\* anchor_count) at the end of get_bbox_deltas_and_labels
Reshape ==
    /\ pc = "anchors"
    /\ output_shape[1] >= 0
    /\ output_shape[2] >= 0
    /\ cells' = [f \in 1..Len(anchors) |-> ReshapeCell(f, output_shape)]
    /\ pc' = "done"
    /\ UNCHANGED <<error, img, stride, anchor_ratios, anchor_scales,
                   base_anchors, output_shape, samplerVars, iouVars>>

\* reshape to negative dimensions raises ValueError
ReshapeRaise ==
    /\ pc = "anchors"
    /\ (output_shape[1] < 0 \/ output_shape[2] < 0)
    /\ error' = "ValueError"
    /\ pc' = "raised"
    /\ UNCHANGED <<samplerVars, iouVars, generatorVars>>

NextAnchors ==
    \/ GetAnchors
    \/ GetAnchorsRaise
    \/ Reshape
    \/ ReshapeRaise

SpecAnchors == InitAnchors /\ [][NextAnchors]_vars

\* base anchor k (from 0) translated to the grid cell of row r and column c
\* (from 0) and normalised
AnchorOfCell(r, c, k) ==
    LET height_padding2 == img.height - output_shape[1] * stride
        width_padding2 == img.width - output_shape[2] * stride
    IN  normalize_bboxes(
            Translate(base_anchors[k + 1],
                      height_padding2 + 2 * r * stride,
                      width_padding2 + 2 * c * stride),
            img.height, img.width)

\* C3: the anchor at flat index (r*outW + c)*anchorsPerCell + k is base
\* anchor k translated to row r, column c; so after the reshape to (outH,
\* outW, anchorsPerCell) every anchor's targets sit at its own cell.
C3_AnchorsRowMajor ==
    /\ (pc \in {"anchors", "done"} /\ stride > 0) =>
          \A r \in 0..(output_shape[1] - 1) :
          \A c \in 0..(output_shape[2] - 1) :
          \A k \in 0..(output_shape[3] - 1) :
              anchors[(r * output_shape[2] + c) * output_shape[3] + k + 1]
                  = AnchorOfCell(r, c, k)
    /\ (pc = "done" /\ stride > 0) =>
          \A f \in DOMAIN cells :
              anchors[f] = AnchorOfCell(cells[f][1], cells[f][2], cells[f][3])

InvalidConfig ==
    anchor_ratios = <<>> \/ anchor_scales = <<>> \/ stride <= 0

\* C7: with an empty ratio list, an empty scale list or a stride <= 0 the
\* anchor generation fails; it never delivers an anchor set.
C7_InvalidConfigFailsFast ==
    InvalidConfig => pc \notin {"anchors", "done"}

\* C9: for stride > 0 (ratios and scales are > 0) every base anchor and
\* every anchor has strictly positive width and height.
C9_NoDegenerateAnchor ==
    (pc \in {"anchors", "done"} /\ stride > 0) =>
        /\ \A k \in DOMAIN base_anchors :
              /\ base_anchors[k][4] > base_anchors[k][2]
              /\ base_anchors[k][3] > base_anchors[k][1]
        /\ \A f \in DOMAIN anchors :
              /\ anchors[f][4].num > anchors[f][2].num
              /\ anchors[f][3].num > anchors[f][1].num

====
